---------------------------- MODULE Spec2Model ----------------------------
(***************************************************************************)
(* Model of bzt/resources/nose_plugin.py: the TaurusNosePlugin reporter    *)
(* (a CSV sample log plus an XML error document) and its JTLErrorWriter.   *)
(*                                                                         *)
(* The host (nose) drives the plugin: begin, then for every test           *)
(* startTest, outcome signals, stopTest, and at the end finalize.  The     *)
(* process may be killed at any point; what a buffered stream has not been *)
(* flushed is then lost.                                                   *)
(***************************************************************************)
EXTENDS Integers, Sequences, FiniteSets, TLC

(* ------------------------------ bounds -------------------------------- *)
MaxTests == 2
MaxSignals == 3
MaxClock == 2
\* lengths of the identity strings tried on the parser: any string, and the
\* method and the parenthesised part of a string "method (inner)"
MaxIdLen == 4
MaxMethodLen == 2
MaxInnerLen == 3
\* add_sample calls that reach an open writer when it is driven on its own
MaxSamples == 4
\* clock ticks per millisecond: time() is finer than the millisecond the
\* plugin truncates to
Resolution == 2

(* ----------------------------- constants ------------------------------ *)
JTL_ERR_ATRS == <<"t", "lt", "ct", "ts", "s", "lb", "rc", "rm", "tn", "dt", "de", "by", "ng", "na">>

JTL_HEADER == <<"timeStamp", "elapsed", "label", "responseCode", "responseMessage", "threadName",
                "success", "grpThreads", "allThreads", "Latency", "Connect">>

Range(s) == {s[i] : i \in 1..Len(s)}

\* Python's None
None == <<>>

(* --------------------------- python values ---------------------------- *)
\* A dictionary value is an int or a str; the tag keeps the two apart the
\* way Python's types do.
I(n) == <<"int", n>>
S(s) == <<"str", s>>

Digits == <<"0", "1", "2", "3", "4", "5", "6", "7", "8", "9">>

\* str(n) of an int
RECURSIVE StrInt(_)
StrInt(n) ==
    IF n < 0 THEN "-" \o StrInt(-n)
    ELSE IF n < 10 THEN Digits[n + 1]
    ELSE StrInt(n \div 10) \o Digits[(n % 10) + 1]

\* str(v) of a dictionary value: a str is itself, an int its decimal text
Str(v) == IF v[1] = "int" THEN StrInt(v[2]) ELSE v[2]

\* int(x) of a float x = n / q: truncation toward zero
Trunc(n, q) == IF n >= 0 THEN n \div q ELSE -((-n) \div q)

(* -------------------------- identity parsing -------------------------- *)
\* An identity string is a sequence of one-character strings.
RECURSIVE Join(_)
Join(cs) == IF cs = <<>> THEN "" ELSE Head(cs) \o Join(Tail(cs))

\* the smallest member of a set of indices, 0 when it is empty
MinIdx(hits) == IF hits = {} THEN 0 ELSE CHOOSE i \in hits : \A j \in hits : i <= j

\* smallest index >= from at which c stands in cs, 0 when there is none
FirstIdx(cs, c, from) == MinIdx({i \in from..Len(cs) : cs[i] = c})

\* "." of a pattern matches every character but the line break
NoBreak(cs, from, to) == \A k \in from..to : cs[k] # "\n"

\* re.compile(open (.*?) close).findall(cs), first group or "": the match
\* starts at the leftmost open from which the first close after it is reached
\* without crossing a line break, and the lazy group stops at that close
FirstBetween(cs, open, close) ==
    LET starts == {i \in 1..Len(cs) :
                      /\ cs[i] = open
                      /\ FirstIdx(cs, close, i + 1) # 0
                      /\ NoBreak(cs, i + 1, FirstIdx(cs, close, i + 1) - 1)}
        i == MinIdx(starts)
    IN  IF i = 0 THEN "" ELSE Join(SubSeq(cs, i + 1, FirstIdx(cs, close, i + 1) - 1))

\* SEARCH_PATTERNS["file"] = \((.*?)\.
FileName(cs) == FirstBetween(cs, "(", ".")

\* mutant: the class is the text after the last "." before the first ")"
ClassNameLastDot(cs) ==
    LET j == FirstIdx(cs, ")", 1)
        dots == {i \in 1..j : cs[i] = "."}
    IN  IF dots = {} THEN ""
        ELSE Join(SubSeq(cs, (CHOOSE i \in dots : \A k \in dots : k <= i) + 1, j - 1))

\* SEARCH_PATTERNS["class"] = \.(.*?)\)
ClassName(cs) == FirstBetween(cs, ".", ")")

\* mutant: a string without a space is taken whole as the method
MethodNameWhole(cs) ==
    LET j == FirstIdx(cs, " ", 1)
        i == MinIdx({k \in 1..j : NoBreak(cs, k, j - 1)})
    IN  IF j = 0 THEN Join(cs) ELSE Join(SubSeq(cs, i, j - 1))

\* SEARCH_PATTERNS["method"] = (.*?)\  : the match ends at the first space
\* and starts at the leftmost position from which that space is reached
\* without crossing a line break
MethodName(cs) ==
    LET j == FirstIdx(cs, " ", 1)
        i == MinIdx({k \in 1..j : NoBreak(cs, k, j - 1)})
    IN  IF j = 0 THEN "" ELSE Join(SubSeq(cs, i, j - 1))

(* ------------------------------- inputs ------------------------------- *)
\* str(test) of the tests the host runs, in the order it runs them (the
\* suite is run again from its first test when more tests are asked for)
Suite ==
    << <<"t", " ", "(", "m", ".", "C", ")">>,
       <<"u", " ", "(", "p", ".", "m", ".", "D", ")">> >>

TestAt(i) == Suite[((i - 1) % Len(Suite)) + 1]

\* err as nose hands it over: (exception type name, value text, traceback
\* text); one for the tests that raise an error, one for those that fail
ErrorInfos == { <<"KeyError", "k", "tb1">> }
FailureInfos == { <<"ValueError", "bad input", "tb22">> }

VARIABLES
    phase,          \* "created", "begun", "finalized", "crashed"
    pc,             \* position of the host inside stopTest: "idle", "row", "report"
    running,        \* a test is between startTest and stopTest
    test,           \* str(test) of the test the host passes to startTest and stopTest
    test_count,
    success,
    jtl_dict,
    last_err,
    module_name,    \* self._module_name
    method_name,    \* self._method_name
    start_time,     \* self._time
    out_open,       \* out_stream is open
    out_buf,        \* rows written to out_stream and not yet flushed
    out_file,       \* rows of the output file on disk
    err_open,       \* err_stream is open
    err_doc,        \* items written to err_stream
    xml_writer,     \* the write_element generator: "none", "open", "closed"
    stdout,         \* the last line written to sys.stdout
    raised,         \* the exception the last callback raised, "" when none
    clock,          \* the host clock in ticks
    signals,        \* history: the outcome signals of the current test
    nsignals,       \* history: the number of outcome signals of the run
    done            \* history: per finished test, its identity, start and signals

vars == <<phase, pc, running, test, test_count, success, jtl_dict, last_err, module_name,
          method_name, start_time, out_open, out_buf, out_file, err_open, err_doc,
          xml_writer, stdout, raised, clock, signals, nsignals, done>>

\* TaurusNosePlugin.__init__
Init ==
    /\ phase = "created"
    /\ pc = "idle"
    /\ running = FALSE
    /\ test = None
    /\ test_count = 0
    /\ success = 0
    /\ jtl_dict = None
    /\ last_err = None
    /\ module_name = None
    /\ method_name = None
    /\ start_time = 0
    /\ out_open = FALSE
    /\ out_buf = <<>>
    /\ out_file = <<>>
    /\ err_open = FALSE
    /\ err_doc = <<>>
    /\ xml_writer = "none"
    /\ stdout = None
    /\ raised = ""
    /\ clock = 0
    /\ signals = <<>>
    /\ nsignals = 0
    /\ done = <<>>


(* --------------------------- outcome signals -------------------------- *)
\* addError, lines 55-56
AddErrorDict(d) == [d EXCEPT !["responseCode"] = S("500")]

\* mutant: addFailure records the code of an error
AddFailureDictAsError(d) == [d EXCEPT !["responseCode"] = S("500")]

\* addFailure, lines 66-67
AddFailureDict(d) == [d EXCEPT !["responseCode"] = S("404")]

\* mutant: addSkip keeps a code that an earlier signal has set
AddSkipDictFirstWins(d) ==
    IF d["responseCode"][1] = "int" THEN [d EXCEPT !["responseCode"] = S("300")] ELSE d

\* addSkip, line 75
AddSkipDict(d) == [d EXCEPT !["responseCode"] = S("300")]

\* addSuccess, lines 83-85
AddSuccessDict(d) ==
    [d EXCEPT !["responseCode"] = S("200"),
              !["success"] = S("true"),
              !["responseMessage"] = S("OK")]

\* A signal of the host: its kind and, for an error or a failure, err.
CanSignal ==
    /\ phase = "begun"
    /\ pc = "idle"
    /\ running
    /\ nsignals < MaxSignals

AddError(err) ==
    /\ CanSignal
    /\ jtl_dict' = AddErrorDict(jtl_dict)
    /\ last_err' = err
    /\ signals' = Append(signals, [kind |-> "error", err |-> err])
    /\ nsignals' = nsignals + 1
    /\ raised' = ""
    /\ UNCHANGED <<phase, pc, running, test_count, success, module_name, method_name,
                   start_time, out_open, out_buf, out_file, err_open, err_doc,
                   xml_writer, stdout, clock, done, test>>

AddFailure(err) ==
    /\ CanSignal
    /\ jtl_dict' = AddFailureDict(jtl_dict)
    /\ last_err' = err
    /\ signals' = Append(signals, [kind |-> "failure", err |-> err])
    /\ nsignals' = nsignals + 1
    /\ raised' = ""
    /\ UNCHANGED <<phase, pc, running, test_count, success, module_name, method_name,
                   start_time, out_open, out_buf, out_file, err_open, err_doc,
                   xml_writer, stdout, clock, done, test>>

\* mutant: a skip forgets the stashed exception
AddSkipClearsErr ==
    /\ CanSignal
    /\ jtl_dict' = AddSkipDict(jtl_dict)
    /\ last_err' = None
    /\ signals' = Append(signals, [kind |-> "skip", err |-> None])
    /\ nsignals' = nsignals + 1
    /\ raised' = ""
    /\ UNCHANGED <<phase, pc, running, test_count, success, module_name,
                   method_name, start_time, out_open, out_buf, out_file, err_open,
                   err_doc, xml_writer, stdout, clock, done, test>>

AddSkip ==
    /\ CanSignal
    /\ jtl_dict' = AddSkipDict(jtl_dict)
    /\ signals' = Append(signals, [kind |-> "skip", err |-> None])
    /\ nsignals' = nsignals + 1
    /\ raised' = ""
    /\ UNCHANGED <<phase, pc, running, test_count, success, last_err, module_name,
                   method_name, start_time, out_open, out_buf, out_file, err_open,
                   err_doc, xml_writer, stdout, clock, done, test>>

AddSuccess ==
    /\ CanSignal
    /\ jtl_dict' = AddSuccessDict(jtl_dict)
    /\ success' = success + 1
    /\ signals' = Append(signals, [kind |-> "success", err |-> None])
    /\ nsignals' = nsignals + 1
    /\ raised' = ""
    /\ UNCHANGED <<phase, pc, running, test_count, last_err, module_name, method_name,
                   start_time, out_open, out_buf, out_file, err_open, err_doc,
                   xml_writer, stdout, clock, done, test>>

(* ------------------------------ the logs ------------------------------ *)
\* csv.DictWriter.writeheader: the row of the field names
HeaderRow == JTL_HEADER

\* csv.DictWriter.writerow: the values in the order of the field names, each
\* written as str() of it
CsvRow(d) == [i \in 1..Len(JTL_HEADER) |-> Str(d[JTL_HEADER[i]])]

\* the row handed to out_stream by csv_writer.writerow
WriteRow(buf, row) == Append(buf, row)

\* write_element up to its first yield: the declaration and the root start-tag
XmlProlog ==
    << [kind |-> "declaration"], [kind |-> "start", tag |-> "testResults"] >>

\* write_element leaving "with xf.element(...)": the root end-tag
XmlEpilog == << [kind |-> "end", tag |-> "testResults"] >>

\* gen_httpSample: the element with its seven children
GenHttpSample(sample, url, resp_data) ==
    [kind |-> "element",
     tag |-> "httpSample",
     attrib |-> sample,
     children |->
        << [tag |-> "responseHeader", class |-> "java.lang.String", text |-> ""],
           [tag |-> "requestHeader", class |-> "java.lang.String", text |-> ""],
           [tag |-> "responseData", class |-> "java.lang.String", text |-> resp_data],
           [tag |-> "cookies", class |-> "java.lang.String", text |-> ""],
           [tag |-> "method", class |-> "java.lang.String", text |-> ""],
           [tag |-> "queryString", class |-> "java.lang.String", text |-> ""],
           [tag |-> "java.net.URL", class |-> "", text |-> url] >>]

\* mutant: the element sent to the generator is not written
XmlSendDropped(doc, el) == doc

\* xml_writer.send(el): xf.write(el); xf.flush()
XmlSend(doc, el) == Append(doc, el)

\* mutant: closing the generator does not leave the root element
XmlCloseNoEnd(doc, w) == doc

\* mutant: close() writes the root end-tag whatever the state of the generator
XmlCloseAgain(doc, w) == doc \o XmlEpilog

\* xml_writer.close(): GeneratorExit at the yield, the root element is left
XmlClose(doc, w) == IF w = "open" THEN doc \o XmlEpilog ELSE doc

\* mutant: the buffered rows are dropped instead of written
FlushedNothing(file, buf) == file

\* out_stream.flush(): what is buffered reaches the file
Flushed(file, buf) == file \o buf

(* ------------------------------- the run ------------------------------ *)
\* begin
Begin ==
    /\ phase = "created"
    /\ phase' = "begun"
    /\ out_open' = TRUE
    /\ out_file' = <<>>
    /\ err_open' = TRUE
    /\ err_doc' = XmlProlog
    /\ xml_writer' = "open"
    /\ out_buf' = <<HeaderRow>>
    /\ module_name' = ""
    /\ raised' = ""
    /\ UNCHANGED <<pc, running, test_count, success, jtl_dict, last_err, method_name,
                   start_time, stdout, clock, signals, nsignals, done, test>>

\* startTest, lines 138-144: the fresh record
NewDict(t, method, module) ==
    [k \in Range(JTL_HEADER) |->
        CASE k = "timeStamp" -> I(Trunc(t, Resolution))
          [] k = "label" -> S(method)
          [] k = "threadName" -> S(module)
          [] k = "grpThreads" -> I(1)
          [] k = "allThreads" -> I(1)
          [] k = "success" -> S("false")
          [] OTHER -> I(0)]

\* mutant: startTest keeps the exception stashed before it
StartTestKeepsErr(id, now) ==
    /\ phase = "begun"
    /\ pc = "idle"
    /\ ~running
    /\ test_count < MaxTests
    /\ clock' = now
    /\ module_name' = FileName(id) \o "." \o ClassName(id)
    /\ method_name' = MethodName(id)
    /\ start_time' = now
    /\ jtl_dict' = NewDict(now, method_name', module_name')
    /\ running' = TRUE
    /\ test' = id
    /\ signals' = <<>>
    /\ raised' = ""
    /\ UNCHANGED <<phase, pc, test_count, success, last_err, out_open, out_buf,
                   out_file, err_open, err_doc, xml_writer, stdout, nsignals, done>>

\* startTest
StartTest(id, now) ==
    /\ phase = "begun"
    /\ pc = "idle"
    /\ ~running
    /\ test_count < MaxTests
    /\ clock' = now
    /\ module_name' = FileName(id) \o "." \o ClassName(id)
    /\ method_name' = MethodName(id)
    /\ last_err' = None
    /\ start_time' = now
    /\ jtl_dict' = NewDict(now, method_name', module_name')
    /\ running' = TRUE
    /\ test' = id
    /\ signals' = <<>>
    /\ raised' = ""
    /\ UNCHANGED <<phase, pc, test_count, success, out_open, out_buf, out_file,
                   err_open, err_doc, xml_writer, stdout, nsignals, done>>

\* mutant: the operands of the subtraction are swapped
ElapsedSwapped(now, start) == Trunc(start - now, Resolution)

\* stopTest, line 153: int(1000 * (time() - self._time))
Elapsed(now, start) == Trunc(now - start, Resolution)

\* stopTest, line 155
HasErr(le) == le # None

\* stopTest, line 157
Trace(err) == err[3] \o "\n" \o err[2]

\* mutant: the latency attribute is filled with the elapsed time
SampleLatencyIsElapsed(d, err) ==
    [a \in Range(JTL_ERR_ATRS) |->
        CASE a = "t" -> d["elapsed"]
          [] a = "lt" -> d["elapsed"]
          [] a = "ct" -> S(Str(d["Connect"]))
          [] a = "ts" -> S(Str(d["timeStamp"]))
          [] a = "s" -> d["success"]
          [] a = "lb" -> d["label"]
          [] a = "rc" -> d["responseCode"]
          [] a = "rm" -> S(err[1])
          [] a = "tn" -> d["threadName"]
          [] a = "dt" -> S("text")
          [] a = "de" -> S("")
          [] a = "by" -> S(StrInt(Len(Trace(err))))
          [] a = "ng" -> S("1")
          [] a = "na" -> S("1")]

\* stopTest, lines 160-174
Sample(d, err) ==
    [a \in Range(JTL_ERR_ATRS) |->
        CASE a = "t" -> d["elapsed"]
          [] a = "lt" -> S(Str(d["Latency"]))
          [] a = "ct" -> S(Str(d["Connect"]))
          [] a = "ts" -> S(Str(d["timeStamp"]))
          [] a = "s" -> d["success"]
          [] a = "lb" -> d["label"]
          [] a = "rc" -> d["responseCode"]
          [] a = "rm" -> S(err[1])
          [] a = "tn" -> d["threadName"]
          [] a = "dt" -> S("text")
          [] a = "de" -> S("")
          [] a = "by" -> S(StrInt(Len(Trace(err))))
          [] a = "ng" -> S("1")
          [] a = "na" -> S("1")]

\* mutant: the elapsed time is stored in the Latency field as well
StoppedDictLatency(d, le, now, start) ==
    LET e == [d EXCEPT !["elapsed"] = S(StrInt(Elapsed(now, start))),
                       !["Latency"] = S(StrInt(Elapsed(now, start)))]
    IN  IF HasErr(le) THEN [e EXCEPT !["responseMessage"] = S(le[1])] ELSE e

\* stopTest, lines 153-158: the record as it is written
StoppedDict(d, le, now, start) ==
    LET e == [d EXCEPT !["elapsed"] = S(StrInt(Elapsed(now, start)))]
    IN  IF HasErr(le) THEN [e EXCEPT !["responseMessage"] = S(le[1])] ELSE e

\* stopTest runs in three consecutive steps, StopTest, StopTestRow and
\* StopTestFlush: once the first is taken no callback runs before the last,
\* and only a kill of the process can fall between them.
\* stopTest, lines 152-176: the counter, the elapsed time, the error sample
StopTest(now) ==
    /\ phase = "begun"
    /\ pc = "idle"
    /\ running
    /\ clock' = now
    /\ test_count' = test_count + 1
    /\ jtl_dict' = StoppedDict(jtl_dict, last_err, now, start_time)
    /\ err_doc' = IF HasErr(last_err)
                  THEN XmlSend(err_doc,
                               GenHttpSample(Sample(jtl_dict', last_err),
                                             jtl_dict'["label"][2], Trace(last_err)))
                  ELSE err_doc
    /\ pc' = "row"
    /\ raised' = ""
    /\ UNCHANGED <<phase, running, success, last_err, module_name, method_name,
                   start_time, out_open, out_buf, out_file, err_open, xml_writer,
                   stdout, signals, nsignals, done, test>>

\* mutant: writerow is indented into the "if self.last_err is not None" block
StopTestRowInIf ==
    /\ phase = "begun"
    /\ pc = "row"
    /\ out_buf' = IF HasErr(last_err) THEN WriteRow(out_buf, CsvRow(jtl_dict)) ELSE out_buf
    /\ pc' = "report"
    /\ UNCHANGED <<phase, running, test_count, success, jtl_dict, last_err, module_name,
                   method_name, start_time, out_open, out_file, err_open, err_doc,
                   xml_writer, stdout, raised, clock, signals, nsignals, done, test>>

\* stopTest, line 178: csv_writer.writerow
StopTestRow ==
    /\ phase = "begun"
    /\ pc = "row"
    /\ out_buf' = WriteRow(out_buf, CsvRow(jtl_dict))
    /\ pc' = "report"
    /\ UNCHANGED <<phase, running, test_count, success, jtl_dict, last_err, module_name,
                   method_name, start_time, out_open, out_file, err_open, err_doc,
                   xml_writer, stdout, raised, clock, signals, nsignals, done, test>>

\* stopTest, lines 180-182: the progress line
Report(module, method, total, passed) == <<module, method, total, passed, total - passed>>

\* stopTest, lines 180-184: the progress line and out_stream.flush()
StopTestFlush ==
    /\ phase = "begun"
    /\ pc = "report"
    /\ stdout' = Report(module_name, method_name, test_count, success)
    /\ out_file' = Flushed(out_file, out_buf)
    /\ out_buf' = <<>>
    /\ pc' = "idle"
    /\ running' = FALSE
    /\ done' = Append(done, [id |-> test, start |-> start_time, sigs |-> signals])
    /\ UNCHANGED <<phase, test_count, success, jtl_dict, last_err, module_name,
                   method_name, start_time, out_open, err_open, err_doc, xml_writer,
                   raised, clock, signals, nsignals, test>>

\* finalize, line 112
NothingToTest(count) == count = 0

\* mutant: the empty run is detected before anything is closed
FinalizeRaiseFirst ==
    /\ phase = "begun"
    /\ pc = "idle"
    /\ ~running
    /\ phase' = "finalized"
    /\ IF NothingToTest(test_count)
       THEN /\ raised' = "RuntimeError: Nothing to test."
            /\ UNCHANGED <<err_doc, xml_writer, out_file, out_buf, out_open, err_open>>
       ELSE /\ raised' = ""
            /\ err_doc' = XmlClose(err_doc, xml_writer)
            /\ xml_writer' = "closed"
            /\ out_file' = Flushed(out_file, out_buf)
            /\ out_buf' = <<>>
            /\ out_open' = FALSE
            /\ err_open' = FALSE
    /\ UNCHANGED <<pc, running, test_count, success, jtl_dict, last_err, module_name,
                   method_name, start_time, stdout, clock, signals, nsignals, done, test>>

\* finalize
Finalize ==
    /\ phase = "begun"
    /\ pc = "idle"
    /\ ~running
    /\ err_doc' = XmlClose(err_doc, xml_writer)
    /\ xml_writer' = "closed"
    /\ out_file' = Flushed(out_file, out_buf)
    /\ out_buf' = <<>>
    /\ out_open' = FALSE
    /\ err_open' = FALSE
    /\ raised' = IF NothingToTest(test_count) THEN "RuntimeError: Nothing to test." ELSE ""
    /\ phase' = "finalized"
    /\ UNCHANGED <<pc, running, test_count, success, jtl_dict, last_err, module_name,
                   method_name, start_time, stdout, clock, signals, nsignals, done, test>>

\* The process is killed: what out_stream buffers never reaches the file.
Crash ==
    /\ phase = "begun"
    /\ phase' = "crashed"
    /\ out_buf' = <<>>
    /\ UNCHANGED <<pc, running, test_count, success, jtl_dict, last_err, module_name,
                   method_name, start_time, out_open, out_file, err_open, err_doc,
                   xml_writer, stdout, raised, clock, signals, nsignals, done, test>>

Next ==
    \/ Begin
    \/ \E now \in clock..MaxClock : StartTest(TestAt(Len(done) + 1), now)
    \/ \E err \in ErrorInfos : AddError(err)
    \/ \E err \in FailureInfos : AddFailure(err)
    \/ AddSkip
    \/ AddSuccess
    \/ \E now \in clock..MaxClock : StopTest(now)
    \/ StopTestRow
    \/ StopTestFlush
    \/ Finalize
    \/ Crash

Spec == Init /\ [][Next]_vars

(* ------------------- any identity in a one-test run ------------------- *)
\* the sequences over an alphabet up to a length
Words(alphabet, n) == UNION {[1..k -> alphabet] : k \in 0..n}

\* a string of the conventional shape "method (inner)"
Shaped(method, inner) == method \o <<" ", "(">> \o inner \o <<")">>

\* methods without space, dot or parenthesis
ShapedMethods == Words({"a", "\n"}, MaxMethodLen)

\* parenthesised parts with a dot and without parenthesis
ShapedInners == {w \in Words({"a", ".", " ", "\n"}, MaxInnerLen) : "." \in Range(w)}

ScenarioA ==
    << "t", "e", "s", "t", "_", "a", "d", "d", " ", "(", "p", "k", "g", ".",
       "m", "o", "d", "u", "l", "e", ".", "C", "a", "l", "c", "T", "e", "s", "t", ")" >>

\* str(test) as the host may pass it: any short string over the delimiters,
\* a letter and the line break, and the strings of the conventional shape
AllIds ==
    Words({"a", " ", "(", ".", ")", "\n"}, MaxIdLen)
        \cup {Shaped(m, w) : m \in ShapedMethods, w \in ShapedInners}
        \cup {ScenarioA}

\* The host runs one test of any identity, which fails or sends no signal.
NextParse ==
    \/ Begin
    \/ (phase = "begun" /\ ~running /\ test_count = 0)
          /\ \E id \in AllIds : StartTest(id, clock)
    \/ (running /\ signals = <<>>) /\ \E err \in FailureInfos : AddFailure(err)
    \/ StopTest(clock)
    \/ StopTestRow
    \/ StopTestFlush
    \/ Finalize

SpecParse == Init /\ [][NextParse]_vars

(* ------------------- the error writer on its own --------------------- *)
\* JTLErrorWriter is a class of its own: here a caller constructs it on
\* err_stream and calls add_sample and close in any order.

\* what a caller hands to add_sample: the attributes, the url, the response data
WriterSamples ==
    { << [a \in Range(JTL_ERR_ATRS) |-> S(v)], v, "trace " \o v >> : v \in {"x", "y", "z"} }

\* JTLErrorWriter.__init__
WriterInit ==
    /\ xml_writer = "none"
    /\ err_open' = TRUE
    /\ err_doc' = XmlProlog
    /\ xml_writer' = "open"
    /\ raised' = ""
    /\ UNCHANGED <<phase, pc, running, test, test_count, success, jtl_dict, last_err,
                   module_name, method_name, start_time, out_open, out_buf, out_file,
                   stdout, clock, signals, nsignals, done>>

\* JTLErrorWriter.add_sample: send() to a generator that has returned raises
\* StopIteration and nothing is written
WriterAddSample(arg) ==
    /\ xml_writer # "none"
    /\ Len(err_doc) < MaxSamples + Len(XmlProlog)
    /\ IF xml_writer = "open"
       THEN /\ err_doc' = XmlSend(err_doc, GenHttpSample(arg[1], arg[2], arg[3]))
            /\ raised' = ""
       ELSE /\ err_doc' = err_doc
            /\ raised' = "StopIteration"
    /\ UNCHANGED <<phase, pc, running, test, test_count, success, jtl_dict, last_err,
                   module_name, method_name, start_time, out_open, out_buf, out_file,
                   err_open, xml_writer, stdout, clock, signals, nsignals, done>>

\* JTLErrorWriter.close
WriterClose ==
    /\ xml_writer # "none"
    /\ err_doc' = XmlClose(err_doc, xml_writer)
    /\ xml_writer' = "closed"
    /\ raised' = ""
    /\ UNCHANGED <<phase, pc, running, test, test_count, success, jtl_dict, last_err,
                   module_name, method_name, start_time, out_open, out_buf, out_file,
                   err_open, stdout, clock, signals, nsignals, done>>

NextWriter ==
    \/ WriterInit
    \/ \E arg \in WriterSamples : WriterAddSample(arg)
    \/ WriterClose

SpecWriter == Init /\ [][NextWriter]_vars

(* ------------------------- reading the outputs ------------------------ *)
\* the column of a row of the log
ColIdx(name) == CHOOSE i \in 1..Len(JTL_HEADER) : JTL_HEADER[i] = name
Col(row, name) == row[ColIdx(name)]

\* the rows after the header
DataRows(f) == IF f = <<>> THEN <<>> ELSE Tail(f)

\* every row handed to out_stream so far, flushed or not
Written == out_file \o out_buf

IsEntry(item) == item.kind = "element"

\* the httpSample elements of the error document, in document order
Entries == SelectSeq(err_doc, IsEntry)

\* the int a decimal text stands for
ParseInt(s) == CHOOSE n \in -(MaxClock + 1)..(MaxClock + 1) : StrInt(n) = s

\* the code the plugin documents for a signal
CodeOf(kind) ==
    CASE kind = "error" -> "500"
      [] kind = "failure" -> "404"
      [] kind = "skip" -> "300"
      [] kind = "success" -> "200"

Last(seq) == seq[Len(seq)]

RunOver == phase = "finalized"

(* -------------------------------- C1 ---------------------------------- *)
\* C1: after begin, N tests (startTest, signals, stopTest) and finalize, the
\* log is the header row followed by exactly N data rows, and row i is the
\* row of the i-th test to finish: it carries that test's label, thread name
\* and start time.
C1_RowPerTest ==
    RunOver =>
        /\ out_buf = <<>>
        /\ out_file # <<>>
        /\ Head(out_file) = HeaderRow
        /\ Len(DataRows(out_file)) = Len(done)
        /\ \A i \in 1..Len(done) :
              LET row == DataRows(out_file)[i]
              IN  /\ Len(row) = Len(JTL_HEADER)
                  /\ Col(row, "label") = MethodName(done[i].id)
                  /\ Col(row, "threadName")
                        = FileName(done[i].id) \o "." \o ClassName(done[i].id)
                  /\ Col(row, "timeStamp") = StrInt(done[i].start \div Resolution)

\* two tests with different outcomes have finished and the run is over
C1_Witness ==
    /\ RunOver
    /\ Len(done) = 2
    /\ Col(DataRows(out_file)[1], "responseCode") = "404"
    /\ Col(DataRows(out_file)[2], "responseCode") = "200"
    /\ Col(DataRows(out_file)[1], "label") = "t"
    /\ Col(DataRows(out_file)[2], "label") = "u"

(* -------------------------------- C2 ---------------------------------- *)
IsFailedRow(row) == Col(row, "responseCode") \in {"404", "500"}

\* C2: after a run, the number of entries of the error document equals the
\* number of tests whose row carries the code of a failure (404) or of an
\* error (500).
C2_EntryPerFailedRow ==
    RunOver => Len(Entries) = Len(SelectSeq(DataRows(out_file), IsFailedRow))

(* -------------------------------- C3 ---------------------------------- *)
\* C3: every data row written by stopTest has responseCode among 200, 300,
\* 404, 500 and has success = true exactly when responseCode = 200.
C3_CodeAndSuccess ==
    \A i \in 1..Len(DataRows(Written)) :
        LET row == DataRows(Written)[i]
        IN  /\ Col(row, "responseCode") \in {"200", "300", "404", "500"}
            /\ (Col(row, "success") = "true") <=> (Col(row, "responseCode") = "200")

(* -------------------------------- C4 ---------------------------------- *)
\* C4: when a test received outcome signals, the responseCode of its row is
\* the code of the last signal received, whatever preceded it.
C4_LastSignalWins ==
    \A i \in 1..Len(done) :
        done[i].sigs # <<>> =>
            Col(DataRows(out_file)[i], "responseCode") = CodeOf(Last(done[i].sigs).kind)

\* a test that received a failure and then a skip has been written
C4_Witness ==
    \E i \in 1..Len(done) :
        /\ Len(done[i].sigs) = 2
        /\ done[i].sigs[1].kind = "failure"
        /\ done[i].sigs[2].kind = "skip"
        /\ Col(DataRows(out_file)[i], "responseCode") = "300"

(* -------------------------------- C5 ---------------------------------- *)
IsErrSignal(sig) == sig.kind \in {"error", "failure"}

\* the test received an error or a failure signal
HadErr(t) == \E j \in 1..Len(t.sigs) : IsErrSignal(t.sigs[j])

\* the finished tests for which add_sample was due, in the order they finished
ErrTests == SelectSeq(done, HadErr)

\* C5: once close() has been reached on an opened writer, the document is the
\* declaration, one testResults start-tag, the k complete httpSample elements
\* in the order they were added, and one testResults end-tag as the last item.
C5_WellFormed ==
    xml_writer = "closed" =>
        LET n == Len(err_doc)
        IN  /\ n >= 3
            /\ err_doc[1].kind = "declaration"
            /\ err_doc[2].kind = "start" /\ err_doc[2].tag = "testResults"
            /\ err_doc[n].kind = "end" /\ err_doc[n].tag = "testResults"
            /\ \A i \in 3..(n - 1) :
                  /\ err_doc[i].kind = "element"
                  /\ err_doc[i].tag = "httpSample"
                  /\ DOMAIN err_doc[i].attrib = Range(JTL_ERR_ATRS)
                  /\ Len(err_doc[i].children) = 7
            /\ Len(ErrTests) = n - 3
            /\ \A i \in 1..Len(ErrTests) :
                  /\ err_doc[i + 2].attrib["lb"] = S(MethodName(ErrTests[i].id))
                  /\ err_doc[i + 2].attrib["ts"]
                        = S(StrInt(ErrTests[i].start \div Resolution))

\* the writer was closed after two samples had been added
C5_Witness ==
    /\ xml_writer = "closed"
    /\ Len(err_doc) = 5
    /\ err_doc[3].attrib["lb"] = S("t")
    /\ err_doc[4].attrib["lb"] = S("u")

(* -------------------------------- C6 ---------------------------------- *)
\* C6: when the process is killed after the k-th stopTest has returned, the
\* file on disk holds exactly k data rows, each of them complete.
C6_RowsDurable ==
    (phase = "crashed" /\ pc = "idle" /\ test_count >= 1) =>
        /\ Len(DataRows(out_file)) = test_count
        /\ \A i \in 1..test_count : Len(DataRows(out_file)[i]) = Len(JTL_HEADER)
        /\ \A i \in 1..Len(done) :
              Col(DataRows(out_file)[i], "label") = MethodName(done[i].id)

\* the process was killed right after the second stopTest returned
C6_Witness ==
    /\ phase = "crashed"
    /\ pc = "idle"
    /\ ~running
    /\ test_count = 2
    /\ Len(out_file) = 3

(* -------------------------------- C7 ---------------------------------- *)
\* C7: when the process is killed at any point after begin has returned and
\* before finalize, the file on disk holds the header row followed by zero or
\* more complete rows; the header is there even before the first stopTest.
C7_HeaderDurable ==
    phase = "crashed" =>
        /\ out_file # <<>>
        /\ Head(out_file) = HeaderRow
        /\ \A i \in 1..Len(DataRows(out_file)) :
              Len(DataRows(out_file)[i]) = Len(JTL_HEADER)

(* -------------------------------- C8 ---------------------------------- *)
\* C8: finalize raises "Nothing to test." exactly when no stopTest has
\* completed; whether it raises or not, the root element of the error
\* document has been closed and both streams have been closed.
C8_Finalize ==
    RunOver =>
        /\ (raised = "RuntimeError: Nothing to test.") <=> (Len(done) = 0)
        /\ raised \in {"", "RuntimeError: Nothing to test."}
        /\ xml_writer = "closed"
        /\ Last(err_doc).kind = "end"
        /\ ~out_open
        /\ ~err_open
        /\ out_buf = <<>>

\* finalize has raised on an empty run
C8_Witness ==
    /\ RunOver
    /\ raised = "RuntimeError: Nothing to test."
    /\ test_count = 0

(* -------------------------------- C9 ---------------------------------- *)
OneSignalEach == \A i \in 1..Len(done) : Len(done[i].sigs) = 1

\* C9: in a run where every test receives exactly one signal, row i carries
\* the code of test i's signal, and the error document holds one entry per
\* test that failed or raised an error and none for the others, in the order
\* the tests finished, rm being the type name of the test's exception.
C9_OneSignalRun ==
    (RunOver /\ OneSignalEach) =>
        /\ Len(DataRows(out_file)) = Len(done)
        /\ \A i \in 1..Len(done) :
              Col(DataRows(out_file)[i], "responseCode") = CodeOf(done[i].sigs[1].kind)
        /\ Len(Entries) = Len(ErrTests)
        /\ \A i \in 1..Len(ErrTests) :
              /\ Entries[i].attrib["rm"] = S(ErrTests[i].sigs[1].err[1])
              /\ Entries[i].attrib["rc"] = S(CodeOf(ErrTests[i].sigs[1].kind))
              /\ Entries[i].attrib["lb"] = S(MethodName(ErrTests[i].id))

\* a success and then a failure with ValueError: rows 200, 404 and one entry
C9_Witness ==
    /\ RunOver
    /\ OneSignalEach
    /\ Len(done) = 2
    /\ done[1].sigs[1].kind = "success"
    /\ done[2].sigs[1].kind = "failure"
    /\ Len(Entries) = 1
    /\ Entries[1].attrib["rm"] = S("ValueError")

(* -------------------------------- C10 --------------------------------- *)
\* C10: with a clock that never goes backwards, every row has elapsed >= 0
\* and timeStamp does not decrease from a row to the next.
C10_Times ==
    LET rows == DataRows(Written)
    IN  /\ \A i \in 1..Len(rows) : ParseInt(Col(rows[i], "elapsed")) >= 0
        /\ \A i \in 1..(Len(rows) - 1) :
              ParseInt(Col(rows[i], "timeStamp")) <= ParseInt(Col(rows[i + 1], "timeStamp"))

\* a test that took a millisecond, followed by a test started later
C10_Witness ==
    LET rows == DataRows(Written)
    IN  /\ Len(rows) = 2
        /\ Col(rows[1], "elapsed") = "1"
        /\ Col(rows[1], "timeStamp") = "0"
        /\ Col(rows[2], "timeStamp") = "1"

(* -------------------------------- C11 --------------------------------- *)
IsEndTag(item) == item.kind = "end"

\* C11: the writer takes entries only while open.  Once close() has been
\* called the document ends with the one root end-tag, and no later
\* add_sample or close changes the document or reopens the writer.
C11_ClosedStaysClosed ==
    /\ [](xml_writer = "closed" =>
            /\ Len(SelectSeq(err_doc, IsEndTag)) = 1
            /\ IsEndTag(Last(err_doc)))
    /\ [][xml_writer = "closed" => (err_doc' = err_doc /\ xml_writer' = "closed")]_vars

\* add_sample was called on a closed writer that holds two entries, and failed
C11_Witness ==
    /\ xml_writer = "closed"
    /\ raised = "StopIteration"
    /\ Len(err_doc) = 5
    /\ IsEndTag(err_doc[5])

(* -------------------------------- C12 --------------------------------- *)
NoLineBreak(cs) == \A k \in 1..Len(cs) : cs[k] # "\n"

\* id read as "method (inner)": method is what stands before the first
\* space, inner what stands between the "(" after it and the final ")"
ShapeOf(id) ==
    LET sp == MinIdx({k \in 1..Len(id) : id[k] = " "})
        m == SubSeq(id, 1, sp - 1)
        w == SubSeq(id, sp + 2, Len(id) - 1)
    IN  [ok |-> /\ sp # 0
                /\ Len(id) >= sp + 2
                /\ id[sp + 1] = "("
                /\ id[Len(id)] = ")"
                /\ \A k \in 1..Len(m) : m[k] \notin {" ", ".", "(", ")"}
                /\ \A k \in 1..Len(w) : w[k] \notin {"(", ")"}
                /\ \E k \in 1..Len(w) : w[k] = ".",
         method |-> m,
         inner |-> w]

\* label and thread name are the method and the parenthesised part of id
ShapeParsed(id, label, thread) ==
    ShapeOf(id).ok => (label = Join(ShapeOf(id).method) /\ thread = Join(ShapeOf(id).inner))

\* C12 as stated: for every identity "method (inner)", method without space,
\* dot or parenthesis, inner with a dot and without parenthesis, startTest
\* sets label to method and threadName to inner, and so reads the row.
C12_ShapeParsed ==
    /\ running => ShapeParsed(test, jtl_dict["label"][2], jtl_dict["threadName"][2])
    /\ \A i \in 1..Len(done) :
          ShapeParsed(done[i].id, Col(DataRows(out_file)[i], "label"),
                      Col(DataRows(out_file)[i], "threadName"))

\* C12 as amended: the same for the identities that hold no line break.
C12_ShapeParsedOneLine ==
    /\ (running /\ NoLineBreak(test)) =>
          ShapeParsed(test, jtl_dict["label"][2], jtl_dict["threadName"][2])
    /\ \A i \in 1..Len(done) :
          NoLineBreak(done[i].id) =>
              ShapeParsed(done[i].id, Col(DataRows(out_file)[i], "label"),
                          Col(DataRows(out_file)[i], "threadName"))

\* the test "test_add (pkg.module.CalcTest)" has been started and written
C12_Witness ==
    /\ Len(done) = 1
    /\ done[1].id = ScenarioA
    /\ Col(DataRows(out_file)[1], "label") = "test_add"
    /\ Col(DataRows(out_file)[1], "threadName") = "pkg.module.CalcTest"

(* -------------------------------- C13 --------------------------------- *)
\* the patterns, read as conditions on the string
MethodMatches(cs) == \E j \in 1..Len(cs) : cs[j] = " "

FileMatches(cs) ==
    \E i \in 1..Len(cs), j \in 1..Len(cs) :
        i < j /\ cs[i] = "(" /\ cs[j] = "." /\ \A k \in (i + 1)..(j - 1) : cs[k] # "\n"

ClassMatches(cs) ==
    \E i \in 1..Len(cs), j \in 1..Len(cs) :
        i < j /\ cs[i] = "." /\ cs[j] = ")" /\ \A k \in (i + 1)..(j - 1) : cs[k] # "\n"

\* a field whose pattern does not match is the empty string
Lenient(id, method, module) ==
    /\ ~MethodMatches(id) => method = ""
    /\ (~FileMatches(id) /\ ~ClassMatches(id)) => module = "."
    /\ ~FileMatches(id) => module = "." \o ClassName(id)
    /\ ~ClassMatches(id) => module = FileName(id) \o "."

\* C13: for every identity string startTest completes without error, every
\* parsed field whose pattern does not match is the empty string, and the test
\* still gets exactly one row at stopTest.
C13_LenientParse ==
    /\ running =>
          /\ raised = ""
          /\ Lenient(test, method_name, module_name)
          /\ jtl_dict["label"] = S(method_name)
          /\ jtl_dict["threadName"] = S(module_name)
    /\ pc \in {"report", "idle"} => Len(DataRows(Written)) = test_count
    /\ \A i \in 1..Len(done) :
          Lenient(done[i].id, Col(DataRows(out_file)[i], "label"),
                  Col(DataRows(out_file)[i], "threadName"))

\* a test whose identity has no space, dot or parenthesis got its row
C13_Witness ==
    /\ Len(done) = 1
    /\ done[1].id = <<"a", "a">>
    /\ Len(DataRows(out_file)) = 1
    /\ Col(DataRows(out_file)[1], "label") = ""
    /\ Col(DataRows(out_file)[1], "threadName") = "."

(* -------------------------------- C14 --------------------------------- *)
\* C14: the label of every row, and the lb attribute and the url text of
\* every entry of the error document, is a non-empty string.
C14_LabelNonEmpty ==
    /\ \A i \in 1..Len(DataRows(Written)) : Col(DataRows(Written)[i], "label") # ""
    /\ \A i \in 1..Len(Entries) :
          /\ Entries[i].attrib["lb"] # S("")
          /\ Entries[i].children[7].text # ""

(* -------------------------------- C15 --------------------------------- *)
SomeErr(sigs) == \E j \in 1..Len(sigs) : IsErrSignal(sigs[j])

\* err of the last error or failure signal
LastErrOf(sigs) ==
    LET hits == {j \in 1..Len(sigs) : IsErrSignal(sigs[j])}
    IN  sigs[CHOOSE j \in hits : \A k \in hits : k <= j].err

\* the responseMessage the signals leave: the type name of the exception
\* stashed last, else what addSuccess or startTest set
MessageOf(sigs) ==
    IF SomeErr(sigs) THEN LastErrOf(sigs)[1]
    ELSE IF \E j \in 1..Len(sigs) : sigs[j].kind = "success" THEN "OK"
    ELSE "0"

\* C15: at stopTest an exception is stashed exactly when an addError or
\* addFailure arrived since this test's startTest, whatever came later; then
\* the row's responseMessage is the type name of the exception stashed last
\* and exactly one entry is forwarded; otherwise no entry is forwarded and
\* responseMessage is what the signals set.
C15_Stash ==
    /\ running =>
          /\ HasErr(last_err) <=> SomeErr(signals)
          /\ SomeErr(signals) => last_err = LastErrOf(signals)
    /\ pc \in {"row", "report"} =>
          /\ Str(jtl_dict["responseMessage"]) = MessageOf(signals)
          /\ Len(Entries) = Len(ErrTests) + (IF SomeErr(signals) THEN 1 ELSE 0)
    /\ pc = "idle" => Len(Entries) = Len(ErrTests)
    /\ \A i \in 1..Len(done) :
          Col(DataRows(out_file)[i], "responseMessage") = MessageOf(done[i].sigs)
    /\ \A k \in 1..Len(ErrTests) :
          Entries[k].attrib["rm"] = S(LastErrOf(ErrTests[k].sigs)[1])

\* a test that raised an error, then failed, then was skipped; its row and its
\* entry carry the type of the failure
C15_Witness ==
    /\ Len(done) = 1
    /\ Len(done[1].sigs) = 3
    /\ done[1].sigs[1].kind = "error"
    /\ done[1].sigs[2].kind = "failure"
    /\ done[1].sigs[3].kind = "skip"
    /\ Col(DataRows(out_file)[1], "responseMessage") = "ValueError"
    /\ Len(Entries) = 1
    /\ Entries[1].attrib["rm"] = S("ValueError")

(* -------------------------------- C16 --------------------------------- *)
\* the finished test the k-th entry belongs to
ErrIdx(k) ==
    CHOOSE i \in 1..Len(done) :
        /\ HadErr(done[i])
        /\ Cardinality({j \in 1..i : HadErr(done[j])}) = k

\* C16: every entry of the error document carries the values of the row
\* written by the same stopTest: t = elapsed, ts = timeStamp, lb = label,
\* tn = threadName, rc = responseCode, s = success, rm = responseMessage,
\* lt = Latency, ct = Connect, and ng = na = "1".
C16_EntryMatchesRow ==
    LET rows == DataRows(out_file)
        ents == Entries
        errs == {i \in 1..Len(done) : HadErr(done[i])}
    IN  \A i \in errs :
            LET e == ents[Cardinality({j \in errs : j <= i})].attrib
                row == rows[i]
            IN  /\ e["t"] = S(Col(row, "elapsed"))
                /\ e["ts"] = S(Col(row, "timeStamp"))
                /\ e["lb"] = S(Col(row, "label"))
                /\ e["tn"] = S(Col(row, "threadName"))
                /\ e["rc"] = S(Col(row, "responseCode"))
                /\ e["s"] = S(Col(row, "success"))
                /\ e["rm"] = S(Col(row, "responseMessage"))
                /\ e["lt"] = S(Col(row, "Latency"))
                /\ e["ct"] = S(Col(row, "Connect"))
                /\ e["ng"] = S("1")
                /\ e["na"] = S("1")

\* the second test took a millisecond and failed after a success signal: its
\* entry and its row both say so
C16_Witness ==
    /\ Len(done) = 2
    /\ Len(ErrTests) = 1
    /\ ErrIdx(1) = 2
    /\ Entries[1].attrib["t"] = S("1")
    /\ Entries[1].attrib["s"] = S("true")
    /\ Entries[1].attrib["rc"] = S("404")
    /\ Col(DataRows(out_file)[2], "elapsed") = "1"

(* -------------------------------- C17 --------------------------------- *)
IsSuccessRow(row) == Col(row, "responseCode") = "200"

\* C17: after every stopTest the tests-run counter equals the number of
\* stopTest calls so far, the tests-succeeded counter equals the number of
\* completed tests whose row has responseCode 200, and the reported Failed
\* count is not negative, for every sequence of outcome signals per test.
C17_Counters ==
    (pc = "idle" /\ ~running /\ Len(done) >= 1) =>
        /\ test_count = Len(done)
        /\ success = Len(SelectSeq(DataRows(out_file), IsSuccessRow))
        /\ stdout[3] = test_count
        /\ stdout[4] = success
        /\ stdout[5] >= 0

(* -------------------------------- C18 --------------------------------- *)
\* C18: in every row, whatever signals the test received, grpThreads = 1,
\* allThreads = 1, Latency = 0 and Connect = 0; the record keeps the values
\* startTest gave these four fields through every signal and every step of
\* stopTest.
C18_FixedFields ==
    /\ \A i \in 1..Len(DataRows(Written)) :
          LET row == DataRows(Written)[i]
          IN  /\ Col(row, "grpThreads") = "1"
              /\ Col(row, "allThreads") = "1"
              /\ Col(row, "Latency") = "0"
              /\ Col(row, "Connect") = "0"
    /\ jtl_dict # None =>
          /\ jtl_dict["grpThreads"] = I(1)
          /\ jtl_dict["allThreads"] = I(1)
          /\ jtl_dict["Latency"] = I(0)
          /\ jtl_dict["Connect"] = I(0)

\* a test that took a millisecond and received an error, a skip and a success
\* signal has its row
C18_Witness ==
    \E i \in 1..Len(done) :
        /\ Len(done[i].sigs) = 3
        /\ done[i].sigs[1].kind = "error"
        /\ done[i].sigs[2].kind = "skip"
        /\ done[i].sigs[3].kind = "success"
        /\ Col(DataRows(out_file)[i], "elapsed") = "1"
        /\ Col(DataRows(out_file)[i], "Latency") = "0"
        /\ Col(DataRows(out_file)[i], "grpThreads") = "1"

(* ------------------- signals outside a test (C19) --------------------- *)
\* A host that also delivers outcome signals when no test is running: before
\* the first startTest, or between a stopTest and the next startTest.  The
\* handlers are the same code; with no record yet (jtl_dict is None) their
\* first statement raises TypeError and nothing is changed.
CanStray ==
    /\ phase = "begun"
    /\ pc = "idle"
    /\ ~running
    /\ nsignals < MaxSignals

\* addError outside a test
StrayError(err) ==
    /\ CanStray
    /\ nsignals' = nsignals + 1
    /\ IF jtl_dict = None
       THEN /\ raised' = "TypeError"
            /\ UNCHANGED <<jtl_dict, last_err>>
       ELSE /\ raised' = ""
            /\ jtl_dict' = AddErrorDict(jtl_dict)
            /\ last_err' = err
    /\ UNCHANGED <<phase, pc, running, test_count, success, module_name, method_name,
                   start_time, out_open, out_buf, out_file, err_open, err_doc,
                   xml_writer, stdout, clock, signals, done, test>>

\* addFailure outside a test
StrayFailure(err) ==
    /\ CanStray
    /\ nsignals' = nsignals + 1
    /\ IF jtl_dict = None
       THEN /\ raised' = "TypeError"
            /\ UNCHANGED <<jtl_dict, last_err>>
       ELSE /\ raised' = ""
            /\ jtl_dict' = AddFailureDict(jtl_dict)
            /\ last_err' = err
    /\ UNCHANGED <<phase, pc, running, test_count, success, module_name, method_name,
                   start_time, out_open, out_buf, out_file, err_open, err_doc,
                   xml_writer, stdout, clock, signals, done, test>>

\* addSkip outside a test
StraySkip ==
    /\ CanStray
    /\ nsignals' = nsignals + 1
    /\ IF jtl_dict = None
       THEN /\ raised' = "TypeError"
            /\ UNCHANGED jtl_dict
       ELSE /\ raised' = ""
            /\ jtl_dict' = AddSkipDict(jtl_dict)
    /\ UNCHANGED <<phase, pc, running, test_count, success, last_err, module_name,
                   method_name, start_time, out_open, out_buf, out_file, err_open,
                   err_doc, xml_writer, stdout, clock, signals, done, test>>

\* addSuccess outside a test
StraySuccess ==
    /\ CanStray
    /\ nsignals' = nsignals + 1
    /\ IF jtl_dict = None
       THEN /\ raised' = "TypeError"
            /\ UNCHANGED <<jtl_dict, success>>
       ELSE /\ raised' = ""
            /\ jtl_dict' = AddSuccessDict(jtl_dict)
            /\ success' = success + 1
    /\ UNCHANGED <<phase, pc, running, test_count, last_err, module_name, method_name,
                   start_time, out_open, out_buf, out_file, err_open, err_doc,
                   xml_writer, stdout, clock, signals, done, test>>

NextStray ==
    \/ Begin
    \/ \E now \in clock..MaxClock : StartTest(TestAt(Len(done) + 1), now)
    \/ \E err \in ErrorInfos : AddError(err)
    \/ \E err \in FailureInfos : AddFailure(err)
    \/ AddSkip
    \/ AddSuccess
    \/ \E err \in ErrorInfos : StrayError(err)
    \/ \E err \in FailureInfos : StrayFailure(err)
    \/ StraySkip
    \/ StraySuccess
    \/ \E now \in clock..MaxClock : StopTest(now)
    \/ StopTestRow
    \/ StopTestFlush
    \/ Finalize

SpecStray == Init /\ [][NextStray]_vars

(* -------------------------------- C19 --------------------------------- *)
SignalDict(d, sig) ==
    CASE sig.kind = "error" -> AddErrorDict(d)
      [] sig.kind = "failure" -> AddFailureDict(d)
      [] sig.kind = "skip" -> AddSkipDict(d)
      [] sig.kind = "success" -> AddSuccessDict(d)

RECURSIVE FoldSignals(_, _)
FoldSignals(d, sigs) ==
    IF sigs = <<>> THEN d ELSE FoldSignals(SignalDict(d, Head(sigs)), Tail(sigs))

\* what startTest parses from each identity of the suite
SuiteNames ==
    [i \in 1..Len(Suite) |->
        [method |-> MethodName(Suite[i]),
         module |-> FileName(Suite[i]) \o "." \o ClassName(Suite[i])]]

NamesOf(id) == SuiteNames[CHOOSE i \in 1..Len(Suite) : Suite[i] = id]

\* the record of finished test t computed from nothing but its identity, its
\* start time, its own signals and the elapsed time el
OwnDict(t, el) ==
    LET d == FoldSignals(NewDict(t.start, NamesOf(t.id).method, NamesOf(t.id).module),
                         t.sigs)
        e == [d EXCEPT !["elapsed"] = S(el)]
    IN  IF SomeErr(t.sigs)
        THEN [e EXCEPT !["responseMessage"] = S(LastErrOf(t.sigs)[1])]
        ELSE e

IsPrefix(a, b) == Len(a) <= Len(b) /\ SubSeq(b, 1, Len(a)) = a

\* every finished test has the row, and the entry or none, that its own
\* identity, clock readings and signals give
C19_OwnOutput ==
    LET rows == DataRows(Written)
        ents == Entries
        errs == {i \in 1..Len(done) : SomeErr(done[i].sigs)}
    IN  /\ \A i \in 1..Len(done) :
              LET d == OwnDict(done[i], Col(rows[i], "elapsed"))
              IN  /\ rows[i] = CsvRow(d)
                  /\ i \in errs =>
                        LET err == LastErrOf(done[i].sigs)
                            k == Cardinality({j \in errs : j <= i})
                        IN  ents[k] = GenHttpSample(Sample(d, err), d["label"][2],
                                                    Trace(err))
        /\ pc = "idle" => Len(ents) = Cardinality(errs)

\* C19: the row and the entry of a test depend only on its identity, the
\* clock and the signals received between its own startTest and stopTest:
\* signals received during an earlier test or between the previous stopTest
\* and this startTest change neither its row nor whether it gets an entry,
\* and no step alters a row or an entry already written.
C19_Isolation ==
    /\ []C19_OwnOutput
    /\ [][IsPrefix(Written, Written') /\ IsPrefix(err_doc, err_doc')]_vars

\* two tests that received no signal have finished; a success signal arrived
\* between the first stopTest and the second startTest (the succeeded counter
\* reported by the second stopTest is 1) and another signal arrived outside
\* the tests; both rows show no outcome and there is no entry
C19_Witness ==
    /\ Len(done) = 2
    /\ done[1].sigs = <<>>
    /\ done[2].sigs = <<>>
    /\ nsignals = 2
    /\ stdout[4] = 1
    /\ Col(DataRows(out_file)[1], "responseCode") = "0"
    /\ Col(DataRows(out_file)[2], "responseCode") = "0"
    /\ Entries = <<>>

(* -------------------------------- C20 --------------------------------- *)
\* the row of a test that had an exception stashed: its responseMessage is
\* the type name of an exception
IsErrRow(row) ==
    \E e \in ErrorInfos \cup FailureInfos : Col(row, "responseMessage") = e[1]

ErrRows == SelectSeq(DataRows(Written), IsErrRow)

\* C20: inside stopTest the entry of a test with a stashed exception is sent
\* to the error writer before the row is written; in every reachable state,
\* every interruption point inside stopTest included, the number of entries
\* emitted is at least the number of rows written for tests with a stashed
\* exception and exceeds it by at most one.
C20_EntryBeforeRow ==
    /\ Len(ErrRows) <= Len(Entries)
    /\ Len(Entries) <= Len(ErrRows) + 1

\* the process was killed inside the second stopTest after the entry was sent
\* and before the row was written: two entries, one row with an exception
C20_Witness ==
    /\ phase = "crashed"
    /\ pc = "row"
    /\ HasErr(last_err)
    /\ Len(Entries) = 2
    /\ Len(ErrRows) = 1
    /\ Last(Entries).attrib["lb"] = jtl_dict["label"]

=============================================================================
